---- MODULE Spec2Model ----
(***************************************************************************)
(* Session authentication of expenses-splitter: the server functions       *)
(* get_user, logout, login and register of src/pages/auth.rs, run as       *)
(* concurrent requests (main.rs) against the user table and the session    *)
(* store.                                                                  *)
(***************************************************************************)
EXTENDS Naturals, Sequences, FiniteSets, TLC

VARIABLES users, sessions, rq, nreq

vars == <<users, sessions, rq, nreq>>

(* ---------------------------------------------------------------- bounds *)
\* requests served in one run
MaxArrivals == 3

(* two requests in flight at once, two session tokens (two browsers)       *)
Reqs == {1, 2}
Tokens == {1, 2}

(* inputs of the server functions: a 5 and a 4 character username, an 8    *)
(* and a 7 character password                                              *)
Usernames == {"alice", "abcd"}
Passwords == {"pw123456", "1234567"}

(* ------------------------------------------- RegisterPage's length policy *)
USERNAME_MIN_LENGTH == 5
PASSWORD_MIN_LENGTH == 8

(* --------------------------------------------------------- password hash *)
(* A bcrypt hash is kept as the one thing verify can tell of it: the       *)
(* password it was made from.  Its salt and cost show in no result of the  *)
(* server functions and are left out.  A stored string that is not a       *)
(* bcrypt hash is MalformedHash.                                           *)
MalformedHash == [valid |-> FALSE, pw |-> ""]

hash(password) == [valid |-> TRUE, pw |-> password]

(* bcrypt::verify: Err on a string that is no bcrypt hash, else Ok(bool)   *)
verify(password, hashed) ==
    IF ~hashed.valid THEN "Err"
    ELSE IF hashed.pw = password THEN "true" ELSE "false"

(* ------------------------------------------------------------ user table *)
NoUser == [id |-> 0, username |-> "", password |-> MalformedHash]

UserRows == {users[i] : i \in 1..Len(users)}

usernameTaken(username) == \E u \in UserRows : u.username = username

(* the user table's username column is UNIQUE: an INSERT of a taken name   *)
(* is refused                                                              *)
unique_violation(username) == usernameTaken(username)

get_user_from_username(username) ==
    IF usernameTaken(username)
    THEN CHOOSE u \in UserRows : u.username = username
    ELSE NoUser

get_user_by_id(id) ==
    IF \E u \in UserRows : u.id = id
    THEN CHOOSE u \in UserRows : u.id = id
    ELSE NoUser

(* AuthSession's current_user: the session's user id joined with the table *)
current_user(token) ==
    IF sessions[token] = 0 THEN NoUser ELSE get_user_by_id(sessions[token])

(* --------------------------------------------------------------- requests *)
(* One record per request in flight: the server function called and its    *)
(* arguments, the session token of its cookie, whether the handler's       *)
(* context closure provided AuthSession and SqlitePool (ctx), the identity *)
(* the AuthSession extractor resolved (cur), the row read by               *)
(* get_user_from_username (user) and the response (res).  ins, wrote and   *)
(* touched record what happened: the id of the row this request inserted,  *)
(* whether it wrote its session, whether another request wrote its session *)
(* since it arrived.                                                       *)
Idle ==
    [pc |-> "idle", op |-> "", tok |-> 0, ctx |-> TRUE, username |-> "",
     password |-> "", confirm_password |-> "", cur |-> NoUser, user |-> NoUser,
     res |-> "", ins |-> 0, wrote |-> FALSE, touched |-> FALSE]

(* the rows the database file may hold when the server starts: none, or a  *)
(* row whose password column is not a bcrypt hash                          *)
InitialTables ==
    {<<>>, <<[id |-> 1, username |-> "alice", password |-> MalformedHash]>>}

Init ==
    /\ users \in InitialTables
    /\ sessions = [t \in Tokens |-> 0]
    /\ rq = [r \in Reqs |-> Idle]
    /\ nreq = 0

(* every other request in flight on the token r writes is marked touched   *)
Touch(r, new) ==
    [q \in Reqs |->
        IF q = r THEN new
        ELSE IF rq[q].pc # "idle" /\ rq[q].tok = rq[r].tok
             THEN [rq[q] EXCEPT !.touched = TRUE]
             ELSE rq[q]]

Respond(r, res) == rq' = [rq EXCEPT ![r].pc = "done", ![r].res = res]

(* state::pool and state::auth: the context the handler's closure provided *)
pool(r) == rq[r].ctx

auth(r) == rq[r].ctx

(* mutant: the identity is written to every session, not to the token's    *)
login_user_all_sessions(r, id, res) ==
    /\ sessions' = [t \in Tokens |-> id]
    /\ rq' = Touch(r, [rq[r] EXCEPT !.pc = "done", !.res = res, !.wrote = TRUE])

(* auth.login_user(id): the session of the request's token now names id   *)
login_user(r, id, res) ==
    /\ sessions' = [sessions EXCEPT ![rq[r].tok] = id]
    /\ rq' = Touch(r, [rq[r] EXCEPT !.pc = "done", !.res = res, !.wrote = TRUE])

(* mutant: logout clears every session, not the token's                    *)
logout_user_all_sessions(r, res) ==
    /\ sessions' = [t \in Tokens |-> 0]
    /\ rq' = Touch(r, [rq[r] EXCEPT !.pc = "done", !.res = res, !.wrote = TRUE])

(* auth.logout_user(): the session of the request's token names nobody     *)
logout_user(r, res) ==
    /\ sessions' = [sessions EXCEPT ![rq[r].tok] = 0]
    /\ rq' = Touch(r, [rq[r] EXCEPT !.pc = "done", !.res = res, !.wrote = TRUE])

(* mutant: the handler starts before the current user is resolved          *)
ArriveUnresolved(r, o, t, c, u, p, cp) ==
    /\ rq[r].pc = "idle"
    /\ \A q \in Reqs : q < r => rq[q].pc # "idle"
    /\ nreq < MaxArrivals
    /\ nreq' = nreq + 1
    /\ rq' = [rq EXCEPT ![r] =
                [Idle EXCEPT !.pc = "bound", !.op = o, !.tok = t, !.ctx = c,
                             !.username = u, !.password = p,
                             !.confirm_password = cp]]
    /\ UNCHANGED <<users, sessions>>

(* A request arrives with the cookie of session t and takes the first free *)
(* slot.  SessionLayer and AuthSessionLayer resolve the session and its     *)
(* current user before the handler runs; the handler's closure provides    *)
(* both contexts or neither.                                               *)
Arrive(r, o, t, c, u, p, cp) ==
    /\ rq[r].pc = "idle"
    /\ \A q \in Reqs : q < r => rq[q].pc # "idle"
    /\ nreq < MaxArrivals
    /\ nreq' = nreq + 1
    /\ rq' = [rq EXCEPT ![r] =
                [Idle EXCEPT !.pc = "bound", !.op = o, !.tok = t, !.ctx = c,
                             !.username = u, !.password = p,
                             !.confirm_password = cp, !.cur = current_user(t)]]
    /\ UNCHANGED <<users, sessions>>

(* mutant: a missing AuthSession is answered as an anonymous user          *)
GetUserAnonymousOnMissing(r) ==
    /\ rq[r].pc = "bound" /\ rq[r].op = "GetUser"
    /\ Respond(r, "Ok")
    /\ UNCHANGED <<users, sessions, nreq>>

(* mutant: get_user carries the body of logout                             *)
GetUserLogsOut(r) ==
    /\ rq[r].pc = "bound" /\ rq[r].op = "GetUser"
    /\ IF ~auth(r)
       THEN Respond(r, "AuthMissing") /\ UNCHANGED sessions
       ELSE logout_user(r, "Ok")
    /\ UNCHANGED <<users, nreq>>

(* get_user *)
GetUser(r) ==
    /\ rq[r].pc = "bound" /\ rq[r].op = "GetUser"
    /\ IF ~auth(r) THEN Respond(r, "AuthMissing") ELSE Respond(r, "Ok")
    /\ UNCHANGED <<users, sessions, nreq>>

(* mutant: logout redirects without calling logout_user                    *)
LogoutOnlyRedirect(r) ==
    /\ rq[r].pc = "bound" /\ rq[r].op = "Logout"
    /\ IF ~auth(r) THEN Respond(r, "AuthMissing") ELSE Respond(r, "Ok")
    /\ UNCHANGED <<users, sessions, nreq>>

(* logout *)
Logout(r) ==
    /\ rq[r].pc = "bound" /\ rq[r].op = "Logout"
    /\ IF ~auth(r)
       THEN Respond(r, "AuthMissing") /\ UNCHANGED sessions
       ELSE logout_user(r, "Ok")
    /\ UNCHANGED <<users, nreq>>

(* mutant: an unknown username is answered with the wrong-password error   *)
LoginLookupGeneric(r) ==
    /\ rq[r].pc = "bound" /\ rq[r].op = "Login"
    /\ IF ~pool(r) THEN Respond(r, "PoolMissing")
       ELSE IF ~auth(r) THEN Respond(r, "AuthMissing")
       ELSE IF get_user_from_username(rq[r].username) = NoUser
            THEN Respond(r, "Password is incorrect")
            ELSE rq' = [rq EXCEPT ![r].pc = "verify",
                                  ![r].user = get_user_from_username(rq[r].username)]
    /\ UNCHANGED <<users, sessions, nreq>>

(* login, up to the await of get_user_from_username *)
LoginLookup(r) ==
    /\ rq[r].pc = "bound" /\ rq[r].op = "Login"
    /\ IF ~pool(r) THEN Respond(r, "PoolMissing")
       ELSE IF ~auth(r) THEN Respond(r, "AuthMissing")
       ELSE IF get_user_from_username(rq[r].username) = NoUser
            THEN Respond(r, "User does not exist")
            ELSE rq' = [rq EXCEPT ![r].pc = "verify",
                                  ![r].user = get_user_from_username(rq[r].username)]
    /\ UNCHANGED <<users, sessions, nreq>>

(* mutant: login_user is called before the outcome of verify is looked at  *)
LoginVerifyLoginFirst(r) ==
    /\ rq[r].pc = "verify" /\ rq[r].op = "Login"
    /\ LET v == verify(rq[r].password, rq[r].user.password) IN
       IF v = "Err" THEN Respond(r, "Invalid hash") /\ UNCHANGED sessions
       ELSE IF v = "true" THEN login_user(r, rq[r].user.id, "Ok")
       ELSE login_user(r, rq[r].user.id, "Password is incorrect")
    /\ UNCHANGED <<users, nreq>>

(* mutant: an error of verify is taken for a match (unwrap_or(true))       *)
LoginVerifyErrAsOk(r) ==
    /\ rq[r].pc = "verify" /\ rq[r].op = "Login"
    /\ LET v == verify(rq[r].password, rq[r].user.password) IN
       IF v = "false" THEN Respond(r, "Password is incorrect") /\ UNCHANGED sessions
       ELSE login_user(r, rq[r].user.id, "Ok")
    /\ UNCHANGED <<users, nreq>>

(* mutant: login logs in the id after the one it read                      *)
LoginVerifyOffByOne(r) ==
    /\ rq[r].pc = "verify" /\ rq[r].op = "Login"
    /\ LET v == verify(rq[r].password, rq[r].user.password) IN
       IF v = "Err" THEN Respond(r, "Invalid hash") /\ UNCHANGED sessions
       ELSE IF v = "true" THEN login_user(r, rq[r].user.id + 1, "Ok")
       ELSE Respond(r, "Password is incorrect") /\ UNCHANGED sessions
    /\ UNCHANGED <<users, nreq>>

(* login, from verify to the return *)
LoginVerify(r) ==
    /\ rq[r].pc = "verify" /\ rq[r].op = "Login"
    /\ LET v == verify(rq[r].password, rq[r].user.password) IN
       IF v = "Err" THEN Respond(r, "Invalid hash") /\ UNCHANGED sessions
       ELSE IF v = "true" THEN login_user(r, rq[r].user.id, "Ok")
       ELSE Respond(r, "Password is incorrect") /\ UNCHANGED sessions
    /\ UNCHANGED <<users, nreq>>

(* mutant: INSERT OR REPLACE, a taken username has its row overwritten      *)
insert_user_or_replace(r, hashed_password) ==
    IF unique_violation(rq[r].username)
    THEN LET old == get_user_from_username(rq[r].username) IN
         /\ users' = [users EXCEPT ![old.id].password = hashed_password]
         /\ rq' = [rq EXCEPT ![r].pc = "inserted", ![r].ins = old.id]
    ELSE /\ users' = Append(users, [id |-> Len(users) + 1,
                                    username |-> rq[r].username,
                                    password |-> hashed_password])
         /\ rq' = [rq EXCEPT ![r].pc = "inserted", ![r].ins = Len(users) + 1]

(* mutant: the error of the INSERT is dropped and register goes on         *)
insert_user_error_dropped(r, hashed_password) ==
    IF unique_violation(rq[r].username)
    THEN rq' = [rq EXCEPT ![r].pc = "inserted"] /\ UNCHANGED users
    ELSE /\ users' = Append(users, [id |-> Len(users) + 1,
                                    username |-> rq[r].username,
                                    password |-> hashed_password])
         /\ rq' = [rq EXCEPT ![r].pc = "inserted", ![r].ins = Len(users) + 1]

(* the INSERT of register and the ? on its result; the id is the next row   *)
(* id                                                                      *)
insert_user(r, hashed_password) ==
    IF unique_violation(rq[r].username)
    THEN Respond(r, "UNIQUE constraint failed") /\ UNCHANGED users
    ELSE /\ users' = Append(users, [id |-> Len(users) + 1,
                                    username |-> rq[r].username,
                                    password |-> hashed_password])
         /\ rq' = [rq EXCEPT ![r].pc = "inserted", ![r].ins = Len(users) + 1]

(* mutant: register does not compare password with confirm_password       *)
RegisterInsertNoConfirmCheck(r) ==
    /\ rq[r].pc = "bound" /\ rq[r].op = "Register"
    /\ IF ~pool(r) THEN Respond(r, "PoolMissing") /\ UNCHANGED users
       ELSE IF ~auth(r) THEN Respond(r, "AuthMissing") /\ UNCHANGED users
       ELSE insert_user(r, hash(rq[r].password))
    /\ UNCHANGED <<sessions, nreq>>

(* mutant: register hashes the username where it should hash the password  *)
RegisterInsertHashesUsername(r) ==
    /\ rq[r].pc = "bound" /\ rq[r].op = "Register"
    /\ IF ~pool(r) THEN Respond(r, "PoolMissing") /\ UNCHANGED users
       ELSE IF ~auth(r) THEN Respond(r, "AuthMissing") /\ UNCHANGED users
       ELSE IF rq[r].password # rq[r].confirm_password
            THEN Respond(r, "Passwords do not match") /\ UNCHANGED users
            ELSE insert_user(r, hash(rq[r].username))
    /\ UNCHANGED <<sessions, nreq>>

(* register, up to the await of the INSERT *)
RegisterInsert(r) ==
    /\ rq[r].pc = "bound" /\ rq[r].op = "Register"
    /\ IF ~pool(r) THEN Respond(r, "PoolMissing") /\ UNCHANGED users
       ELSE IF ~auth(r) THEN Respond(r, "AuthMissing") /\ UNCHANGED users
       ELSE IF rq[r].password # rq[r].confirm_password
            THEN Respond(r, "Passwords do not match") /\ UNCHANGED users
            ELSE insert_user(r, hash(rq[r].password))
    /\ UNCHANGED <<sessions, nreq>>

(* mutant: register reads back the newest row, not the row of its username *)
RegisterFetchNewestRow(r) ==
    /\ rq[r].pc = "inserted" /\ rq[r].op = "Register"
    /\ rq' = [rq EXCEPT ![r].pc = "fetched", ![r].user = users[Len(users)]]
    /\ UNCHANGED <<users, sessions, nreq>>

(* register, the await of get_user_from_username *)
RegisterFetch(r) ==
    /\ rq[r].pc = "inserted" /\ rq[r].op = "Register"
    /\ IF get_user_from_username(rq[r].username) = NoUser
       THEN Respond(r, "User not found")
       ELSE rq' = [rq EXCEPT ![r].pc = "fetched",
                             ![r].user = get_user_from_username(rq[r].username)]
    /\ UNCHANGED <<users, sessions, nreq>>

(* mutant: register redirects without calling login_user                   *)
RegisterLoginSkipped(r) ==
    /\ rq[r].pc = "fetched" /\ rq[r].op = "Register"
    /\ Respond(r, "Ok")
    /\ UNCHANGED <<users, sessions, nreq>>

(* mutant: register logs in the id after the one it read                   *)
RegisterLoginOffByOne(r) ==
    /\ rq[r].pc = "fetched" /\ rq[r].op = "Register"
    /\ login_user(r, rq[r].user.id + 1, "Ok")
    /\ UNCHANGED <<users, nreq>>

(* register, login_user to the return *)
RegisterLogin(r) ==
    /\ rq[r].pc = "fetched" /\ rq[r].op = "Register"
    /\ login_user(r, rq[r].user.id, "Ok")
    /\ UNCHANGED <<users, nreq>>

(* the response is sent and the request is over *)
Retire(r) ==
    /\ rq[r].pc = "done"
    /\ rq' = [rq EXCEPT ![r] = Idle]
    /\ UNCHANGED <<users, sessions, nreq>>

Next ==
    \E r \in Reqs :
        \/ \E t \in Tokens :
              \/ \E c \in BOOLEAN :
                    \/ Arrive(r, "GetUser", t, c, "", "", "")
                    \/ Arrive(r, "Logout", t, c, "", "", "")
              \/ \E u \in Usernames, p \in Passwords :
                    \/ Arrive(r, "Login", t, TRUE, u, p, "")
                    \/ \E cp \in Passwords : Arrive(r, "Register", t, TRUE, u, p, cp)
              \/ Arrive(r, "Login", t, FALSE, "alice", "pw123456", "")
              \/ Arrive(r, "Register", t, FALSE, "alice", "pw123456", "pw123456")
        \/ GetUser(r)
        \/ Logout(r)
        \/ LoginLookup(r)
        \/ LoginVerify(r)
        \/ RegisterInsert(r)
        \/ RegisterFetch(r)
        \/ RegisterLogin(r)
        \/ Retire(r)

Spec == Init /\ [][Next]_vars

(* ------------------------------------------------------------ properties *)
Done(r) == rq[r].pc = "done"

(* the session of r is as r found it: r wrote nothing, and if no other     *)
(* request wrote it either, it still names the user resolved on arrival    *)
SessionUnchangedBy(r) ==
    /\ ~rq[r].wrote
    /\ ~rq[r].touched => sessions[rq[r].tok] = rq[r].cur.id

(* r is a register that got as far as its INSERT                           *)
TriedInsert(r) ==
    /\ rq[r].op = "Register" /\ rq[r].pc \in {"inserted", "fetched", "done"}
    /\ rq[r].ctx /\ rq[r].password = rq[r].confirm_password

RowsNamed(username) == {i \in 1..Len(users) : users[i].username = username}

(* C1: a login whose username is unknown or whose password does not verify *)
(* returns an error and writes no session; on a session that was anonymous *)
(* and that no other request wrote, the current user is still nobody.      *)
C1_FailedLoginStaysAnonymous ==
    \A r \in Reqs :
        (/\ Done(r) /\ rq[r].op = "Login"
         /\ \/ rq[r].user = NoUser
            \/ verify(rq[r].password, rq[r].user.password) # "true")
        => /\ rq[r].res # "Ok"
           /\ ~rq[r].wrote
           /\ (rq[r].cur = NoUser /\ ~rq[r].touched)
                 => (sessions[rq[r].tok] = 0 /\ current_user(rq[r].tok) = NoUser)

C1_Witness ==
    \E r \in Reqs :
        /\ Done(r) /\ rq[r].op = "Login" /\ rq[r].res = "Password is incorrect"
        /\ rq[r].cur = NoUser /\ ~rq[r].touched

(* C2: after a register that succeeded, and with no later write to its     *)
(* session, the session's current user is the user named as registered.    *)
C2_RegisterLogsIn ==
    \A r \in Reqs :
        (Done(r) /\ rq[r].op = "Register" /\ rq[r].res = "Ok" /\ ~rq[r].touched)
        => /\ current_user(rq[r].tok) # NoUser
           /\ current_user(rq[r].tok).username = rq[r].username

C2_Witness ==
    \E r \in Reqs :
        /\ Done(r) /\ rq[r].op = "Register" /\ rq[r].res = "Ok" /\ ~rq[r].touched
        /\ rq[r].username = "alice"

(* C3: a logout that has its context succeeds whatever the session held,   *)
(* and with no later write to the session its current user is nobody.      *)
C3_LogoutLeavesAnonymous ==
    \A r \in Reqs :
        (Done(r) /\ rq[r].op = "Logout" /\ rq[r].ctx)
        => /\ rq[r].res = "Ok"
           /\ ~rq[r].touched
                 => (sessions[rq[r].tok] = 0 /\ current_user(rq[r].tok) = NoUser)

C3_Witness ==
    \E r \in Reqs :
        /\ Done(r) /\ rq[r].op = "Logout" /\ rq[r].res = "Ok"
        /\ rq[r].cur # NoUser /\ ~rq[r].touched

(* C4: of two registers of one username that both reached their INSERT, at *)
(* most one inserted a row, every one that inserted none has failed with   *)
(* the duplicate error, and one row of that username exists.               *)
C4_ConcurrentRegisterOneWins ==
    \A r1, r2 \in Reqs :
        (/\ r1 # r2 /\ TriedInsert(r1) /\ TriedInsert(r2)
         /\ rq[r1].username = rq[r2].username)
        => /\ ~(rq[r1].ins # 0 /\ rq[r2].ins # 0)
           /\ rq[r1].ins = 0
                 => (Done(r1) /\ rq[r1].res = "UNIQUE constraint failed")
           /\ Cardinality(RowsNamed(rq[r1].username)) = 1

C4_Witness ==
    \E r1, r2 \in Reqs :
        /\ r1 # r2 /\ rq[r1].username = rq[r2].username
        /\ rq[r1].op = "Register" /\ rq[r1].pc = "inserted" /\ rq[r1].ins # 0
        /\ rq[r2].op = "Register" /\ Done(r2)
        /\ rq[r2].res = "UNIQUE constraint failed"

C6_ServerEnforcesMinLength ==
    \A r \in Reqs :
        (Done(r) /\ rq[r].op = "Register")
        => IF \/ Len(rq[r].password) < PASSWORD_MIN_LENGTH
              \/ Len(rq[r].username) < USERNAME_MIN_LENGTH
           THEN rq[r].res # "Ok" /\ rq[r].ins = 0
           ELSE rq[r].ins # 0 => rq[r].res = "Ok"

(* C7: a register whose password differs from confirm_password fails with  *)
(* the mismatch error, inserts no row and leaves its session as it found   *)
(* it.                                                                     *)
C7_PasswordMismatchRejected ==
    \A r \in Reqs :
        (/\ rq[r].op = "Register" /\ rq[r].pc # "bound" /\ rq[r].ctx
         /\ rq[r].password # rq[r].confirm_password)
        => /\ Done(r) /\ rq[r].res = "Passwords do not match"
           /\ rq[r].ins = 0
           /\ SessionUnchangedBy(r)

C7_Witness ==
    \E r \in Reqs :
        /\ Done(r) /\ rq[r].op = "Register"
        /\ rq[r].res = "Passwords do not match"
        /\ ~usernameTaken(rq[r].username) /\ ~rq[r].touched

(* C8: a login that finds a row whose stored hash is malformed ends as a   *)
(* login with a wrong password does, and writes no session.                *)
C8_MalformedHashIsWrongPassword ==
    \A r \in Reqs :
        (Done(r) /\ rq[r].op = "Login" /\ rq[r].user # NoUser
         /\ ~rq[r].user.password.valid)
        => rq[r].res = "Password is incorrect" /\ ~rq[r].wrote

(* C9: a request whose handler has no context ends with an error, never    *)
(* with Ok, inserts no row and writes no session.                          *)
C9_MissingContextIsAnError ==
    \A r \in Reqs :
        (Done(r) /\ ~rq[r].ctx)
        => /\ rq[r].res \in {"AuthMissing", "PoolMissing"}
           /\ rq[r].ins = 0 /\ ~rq[r].wrote

C9_Witness ==
    \E r1, r2 \in Reqs :
        /\ Done(r1) /\ ~rq[r1].ctx /\ rq[r1].op = "GetUser"
        /\ Done(r2) /\ ~rq[r2].ctx /\ rq[r2].op = "Register"

(* C10: two get_user requests with the same token, with no write to that   *)
(* session since the earlier one arrived, resolve the same current user,   *)
(* and each returns the user it resolved.                                  *)
C10_TokenReplayResolvesSame ==
    \A r1, r2 \in Reqs :
        (/\ rq[r1].op = "GetUser" /\ rq[r2].op = "GetUser"
         /\ rq[r1].tok = rq[r2].tok
         /\ ~rq[r1].touched /\ ~rq[r2].touched)
        => /\ rq[r1].cur = rq[r2].cur
           /\ (Done(r1) /\ rq[r1].ctx) => rq[r1].res = "Ok"

C10_Witness ==
    \E r1, r2 \in Reqs :
        /\ r1 # r2 /\ rq[r1].tok = rq[r2].tok
        /\ Done(r1) /\ rq[r1].op = "GetUser" /\ rq[r1].res = "Ok"
        /\ Done(r2) /\ rq[r2].op = "GetUser" /\ rq[r2].res = "Ok"
        /\ rq[r1].cur # NoUser /\ ~rq[r1].touched /\ ~rq[r2].touched

(* r takes a step: every action moves the pc of exactly one request        *)
Steps(r) == rq'[r].pc # rq[r].pc

(* C11: the user id of every session is absent or the id of a row of the   *)
(* user table.                                                             *)
C11_SessionNamesExistingUser ==
    \A t \in Tokens : sessions[t] = 0 \/ \E u \in UserRows : u.id = sessions[t]

C11_Witness ==
    \E t \in Tokens :
        /\ sessions[t] # 0
        /\ \E r \in Reqs : Done(r) /\ rq[r].op = "Logout" /\ rq[r].tok # t

(* C12: the row a register inserted verifies the registered password and   *)
(* no other; a login that finds a row with a well-formed hash succeeds     *)
(* and makes that user the session's user when its password verifies, and  *)
(* fails with the wrong-password error when it does not.                   *)
C12_RoundTripState ==
    /\ \A r \in Reqs :
          rq[r].ins # 0
          => /\ users[rq[r].ins].username = rq[r].username
             /\ \A p \in Passwords :
                   verify(p, users[rq[r].ins].password)
                      = IF p = rq[r].password THEN "true" ELSE "false"
    /\ \A r \in Reqs :
          (Done(r) /\ rq[r].op = "Login" /\ rq[r].user # NoUser
           /\ rq[r].user.password.valid)
          => IF verify(rq[r].password, rq[r].user.password) = "true"
             THEN /\ rq[r].res = "Ok"
                  /\ ~rq[r].touched => current_user(rq[r].tok) = rq[r].user
                  /\ rq[r].user.username = rq[r].username
             ELSE rq[r].res = "Password is incorrect"

(* a login with its context whose username has a row finds that row        *)
C12_LookupStep ==
    \A r \in Reqs :
        (/\ Steps(r) /\ rq[r].op = "Login" /\ rq[r].pc = "bound" /\ rq[r].ctx
         /\ usernameTaken(rq[r].username))
        => /\ rq'[r].pc = "verify"
           /\ rq'[r].user \in UserRows
           /\ rq'[r].user.username = rq[r].username

C12_CredentialRoundTrip == []C12_RoundTripState /\ [][C12_LookupStep]_vars

C12_Witness ==
    \E r \in Reqs :
        /\ Done(r) /\ rq[r].op = "Login" /\ rq[r].res = "Ok" /\ ~rq[r].touched
        /\ rq[r].cur = NoUser
        /\ current_user(rq[r].tok).username = rq[r].username

(* C13: no step of a get_user request, its arrival and its response        *)
(* included, changes the user table or the user id of any session.         *)
C13_GetUserStep ==
    \A r \in Reqs :
        (Steps(r) /\ (rq[r].op = "GetUser" \/ rq'[r].op = "GetUser"))
        => (users' = users /\ sessions' = sessions)

C13_GetUserReadOnly == [][C13_GetUserStep]_vars

C13_Witness ==
    \E r \in Reqs :
        /\ Done(r) /\ rq[r].op = "GetUser" /\ rq[r].res = "Ok"
        /\ rq[r].cur # NoUser /\ sessions[rq[r].tok] = rq[r].cur.id

(* C14: a session comes to name a user only by a step of a request on that *)
(* session: a login that read the row of that user by its username and     *)
(* whose password verifies against the row's hash, or a register that      *)
(* inserted the row of that user.  Sessions start anonymous.               *)
C14_AuthenticatingStep ==
    \A t \in Tokens :
        (sessions'[t] # sessions[t] /\ sessions'[t] # 0)
        => \E r \in Reqs :
              /\ Steps(r) /\ rq[r].tok = t
              /\ \/ /\ rq[r].op = "Login"
                    /\ rq[r].user \in UserRows
                    /\ rq[r].user.id = sessions'[t]
                    /\ rq[r].user.username = rq[r].username
                    /\ verify(rq[r].password, rq[r].user.password) = "true"
                 \/ /\ rq[r].op = "Register"
                    /\ rq[r].ins = sessions'[t]
                    /\ users[rq[r].ins].username = rq[r].username

C14_AuthenticationSound ==
    (\A t \in Tokens : sessions[t] = 0) /\ [][C14_AuthenticatingStep]_vars

C14_Witness ==
    \E r1, r2 \in Reqs :
        /\ Done(r1) /\ rq[r1].op = "Login" /\ rq[r1].res = "Ok"
        /\ Done(r2) /\ rq[r2].op = "Register" /\ rq[r2].res = "Ok"
        /\ rq[r1].tok # rq[r2].tok
        /\ sessions[rq[r1].tok] # 0 /\ sessions[rq[r2].tok] # 0

(* C15: a register that read back its row, or succeeded, holds the row its *)
(* own INSERT created, and with no later write to its session the session  *)
(* names that row.                                                         *)
C15_RegisterLogsInOwnRow ==
    \A r \in Reqs :
        /\ (rq[r].op = "Register" /\ rq[r].pc = "fetched")
              => (rq[r].ins # 0 /\ rq[r].user = users[rq[r].ins])
        /\ (rq[r].op = "Register" /\ Done(r) /\ rq[r].res = "Ok")
              => /\ rq[r].ins # 0 /\ rq[r].user = users[rq[r].ins]
                 /\ ~rq[r].touched => sessions[rq[r].tok] = rq[r].ins

C15_Witness ==
    \E r1, r2 \in Reqs :
        /\ r1 # r2
        /\ rq[r1].op = "Register" /\ Done(r1) /\ rq[r1].res = "Ok"
        /\ rq[r2].op = "Register" /\ rq[r2].pc = "inserted"
        /\ rq[r1].ins # 0 /\ rq[r2].ins > rq[r1].ins
        /\ rq[r1].touched = FALSE

(* C16: a step of a request changes the user id of no session but the one  *)
(* of its own token.                                                       *)
C16_IsolationStep ==
    \A r \in Reqs :
        Steps(r) => \A t \in Tokens : sessions'[t] # sessions[t] => rq[r].tok = t

C16_SessionIsolation == [][C16_IsolationStep]_vars

C16_Witness ==
    \E r \in Reqs, t \in Tokens :
        /\ Done(r) /\ rq[r].op = "Logout" /\ rq[r].wrote /\ rq[r].cur # NoUser
        /\ t # rq[r].tok /\ sessions[t] # 0 /\ sessions[rq[r].tok] = 0

(* C17: with a successful login of u and a logout on one token both over,  *)
(* the session names u, the user the login read by its username, or        *)
(* nobody.                                                                 *)
C17_LoginLogoutLastWriteWins ==
    \A r1, r2 \in Reqs :
        (/\ Done(r1) /\ rq[r1].op = "Login" /\ rq[r1].res = "Ok"
         /\ Done(r2) /\ rq[r2].op = "Logout" /\ rq[r2].res = "Ok"
         /\ rq[r1].tok = rq[r2].tok)
        => /\ sessions[rq[r1].tok] \in {0, rq[r1].user.id}
           /\ rq[r1].user.username = rq[r1].username
           /\ current_user(rq[r1].tok) \in {NoUser, rq[r1].user}

C17_Witness ==
    \E r1, r2 \in Reqs :
        /\ Done(r1) /\ rq[r1].op = "Login" /\ rq[r1].res = "Ok"
        /\ Done(r2) /\ rq[r2].op = "Logout" /\ rq[r2].res = "Ok"
        /\ rq[r1].tok = rq[r2].tok
        /\ rq[r2].touched /\ sessions[rq[r1].tok] = rq[r1].user.id

(* C18: the first step of every request resolves the current user of its   *)
(* token, from the stores as they are then and without writing them; every *)
(* later step of the request, the handler's, keeps the token and the user  *)
(* resolved.                                                               *)
C18_ResolveFirstStep ==
    \A r \in Reqs :
        Steps(r)
        => IF rq[r].pc = "idle"
           THEN /\ rq'[r].pc = "bound" /\ rq'[r].tok \in Tokens
                /\ rq'[r].cur = current_user(rq'[r].tok)
                /\ users' = users /\ sessions' = sessions
           ELSE rq'[r].pc # "idle"
                   => (rq'[r].cur = rq[r].cur /\ rq'[r].tok = rq[r].tok)

C18_IdentityResolvedBeforeHandler == [][C18_ResolveFirstStep]_vars

C18_Witness ==
    \E r \in Reqs :
        rq[r].pc = "bound" /\ rq[r].op = "GetUser" /\ rq[r].cur # NoUser

(* C19: the user table changes only by a register with matching passwords  *)
(* and a free username appending the row of its username and the hash of   *)
(* its password under the next id; the rows there stay as they are.        *)
C19_TableStep ==
    users' # users
    => \E r \in Reqs :
          /\ Steps(r) /\ rq[r].op = "Register" /\ rq[r].pc = "bound"
          /\ rq[r].password = rq[r].confirm_password
          /\ ~usernameTaken(rq[r].username)
          /\ users' = Append(users, [id |-> Len(users) + 1,
                                     username |-> rq[r].username,
                                     password |-> hash(rq[r].password)])

C19_UsersWriteOnce == [][C19_TableStep]_vars

C19_Witness ==
    \E r1, r2 \in Reqs :
        /\ Done(r1) /\ rq[r1].op = "Login" /\ rq[r1].res = "Password is incorrect"
        /\ rq[r1].user \in UserRows
        /\ Done(r2) /\ rq[r2].op = "Register"
        /\ rq[r2].res = "UNIQUE constraint failed"

====
